---------------------------- MODULE Spec2Model ----------------------------
(***************************************************************************)
(* Event-sourcing command dispatch engine (src/src/event.ts,               *)
(* src/src/schema.ts): the command registry, the reducer registry, the     *)
(* transactional runCommand state machine and reduceRow, over a store      *)
(* with transactions and row locks.                                        *)
(***************************************************************************)
EXTENDS Integers, Sequences, FiniteSets, TLC

(***************************************************************************)
(* Bounds of the model.                                                    *)
(***************************************************************************)
\* payload and initial column values range over 0..MaxVal
MaxVal == 1
\* a generic command's planActions returns at most MaxEvents events
MaxEvents == 2

(***************************************************************************)
(* JavaScript values.                                                      *)
(***************************************************************************)
\* SQL NULL / JS null / JS undefined for a column value
NULL == -1
Vals == 0 .. MaxVal

\* an object literal {} : no own keys
EmptyObj == [k \in {} |-> TRUE]

\* keys every object literal inherits from Object.prototype
ProtoKeys == {"toString"}

Undefined == [kind |-> "undefined"]
JsTrue == [kind |-> "true"]
Inherited == [kind |-> "inherited"]

\* obj[key] : own property, else the inherited one, else undefined
Get(obj, key) ==
    IF key \in DOMAIN obj THEN obj[key]
    ELSE IF key \in ProtoKeys THEN Inherited
    ELSE Undefined

\* JS truthiness of a looked-up registry value
Truthy(v) == v # Undefined

\* obj[key] = v
Put(obj, key, v) ==
    [k \in (DOMAIN obj) \cup {key} |-> IF k = key THEN v ELSE obj[k]]

(***************************************************************************)
(* The schema and its compilation (schema.ts).                             *)
(***************************************************************************)
Schema ==
    [items  |-> <<"name", "value">>,
     tags   |-> <<"value">>,
     events |-> <<"created_at", "name", "table_name", "row_id", "actor_id", "data">>]

\* processSchema: every table but the reserved one, columns in declaration order
namesForTable == [t \in (DOMAIN Schema) \ {"events"} |-> Schema[t]]

Tables == DOMAIN namesForTable

Range(s) == {s[i] : i \in DOMAIN s}

Columns(t) == Range(namesForTable[t])

(***************************************************************************)
(* State.                                                                  *)
(***************************************************************************)
VARIABLES
    commandNames,   \* event.ts `commandNames`: own keys -> true
    reducers,       \* event.ts `reducers`: table -> (event name -> reducer)
    lastReg,        \* the last registration call and how it ended
    rows,           \* the store's committed rows: <<table, id>> -> row
    log,            \* the events table in insertion (serial id) order
    locks,          \* row locks: <<table, id>> -> the call holding it
    call,           \* per runCommand invocation: its locals and position
    reduced         \* the last reduceRow call and what it returned

regVars == <<commandNames, reducers, lastReg>>
storeVars == <<rows, log, locks>>
vars == <<commandNames, reducers, lastReg, rows, log, locks, call, reduced>>

(***************************************************************************)
(* Command registry (event.ts createCommand).                              *)
(***************************************************************************)
Kinds == {"create", "modify", "generic"}

\* a command declared without a fixed table: `table` is undefined
NoTable == "undefined"

\* const { table, ...data } = data_: the fields of the input but `table`
withoutTable(data_) == [f \in (DOMAIN data_) \ {"table"} |-> data_[f]]

\* a mutation of creatorEvent: the whole input becomes the payload
creatorEventKeepsTable(name, kind, commandTable, data_) ==
    [name  |-> name,
     kind  |-> kind,
     data  |-> data_,
     rowId |-> 0,
     table |-> IF commandTable # NoTable THEN commandTable ELSE data_.table]

\* creatorEvent: the input's `table` field is split from the rest, which
\* becomes the payload; the table is the command's fixed one if declared
creatorEvent(name, kind, commandTable, data_) ==
    [name  |-> name,
     kind  |-> kind,
     data  |-> withoutTable(data_),
     rowId |-> 0,
     table |-> IF commandTable # NoTable THEN commandTable ELSE data_.table]

\* updaterEvent: as creatorEvent, with the row id validate returned
updaterEvent(name, kind, commandTable, rowId, data_) ==
    [name  |-> name,
     kind  |-> kind,
     data  |-> withoutTable(data_),
     rowId |-> rowId,
     table |-> IF commandTable # NoTable THEN commandTable ELSE data_.table]

\* createCommand: throws on a name whose lookup in commandNames is truthy,
\* else records the name and returns the dispatchable command
createCommand(names, command) ==
    IF Truthy(Get(names, command.name))
    THEN [threw |-> TRUE, names |-> names]
    ELSE [threw |-> FALSE, names |-> Put(names, command.name, JsTrue)]

(***************************************************************************)
(* Reducer registry (event.ts addReducer, ReducerObject).                  *)
(***************************************************************************)
\* a mutation of addReducer that overwrites an existing handler
addReducerOverwrite(reds, table, name, reducer) ==
    LET withTable == IF Truthy(Get(reds, table)) THEN reds
                     ELSE Put(reds, table, EmptyObj)
    IN  [threw |-> FALSE,
         reds  |-> Put(withTable, table, Put(withTable[table], name, reducer))]

\* addReducer: reducers[table] ||= {}; throw if reducers[table][name] is
\* truthy; else store the reducer
addReducer(reds, table, name, reducer) ==
    LET withTable == IF Truthy(Get(reds, table)) THEN reds
                     ELSE Put(reds, table, EmptyObj)
    IN  IF Truthy(Get(withTable[table], name))
        THEN [threw |-> TRUE, reds |-> withTable]
        ELSE [threw |-> FALSE,
              reds  |-> Put(withTable, table, Put(withTable[table], name, reducer))]

\* reducers[table]?.[eventName]
lookupReducer(reds, table, eventName) ==
    IF Truthy(Get(reds, table)) THEN Get(reds[table], eventName) ELSE Undefined

(***************************************************************************)
(* Registration calls made by client code at start-up.                     *)
(***************************************************************************)
RegNames == {"createItem", "incItem", "toString"}

CreatorFns == {"mkFull", "mkPart"}
UpdaterFns == {"inc", "set", "clear"}

Calls == {1, 2}

\* the locals of a runCommand invocation that has not started
IdleCall ==
    [pc |-> "idle", command |-> Undefined, input |-> Undefined, actorId |-> "",
     now |-> 0, mutator |-> << >>, i |-> 0,
     selectedObjects |-> EmptyObj, mutatorData |-> EmptyObj,
     events |-> << >>, k |-> 0, pending |-> Undefined,
     txRows |-> EmptyObj,
     \* what the invocation did, kept for the properties
     wrote |-> EmptyObj, appended |-> << >>, taken |-> << >>,
     fault |-> "none", outcome |-> "none", snap |-> Undefined,
     \* the transaction statements issued, the id validate returned, and
     \* how the promise settled
     issued |-> << >>, validated |-> 0, result |-> "pending"]

NoReduce == [op |-> "none"]

RegInit ==
    /\ commandNames = EmptyObj
    /\ reducers = EmptyObj
    /\ lastReg = [op |-> "none"]
    /\ rows = EmptyObj
    /\ log = << >>
    /\ locks = EmptyObj
    /\ call = [c \in Calls |-> IdleCall]
    /\ reduced = NoReduce

CreateCommand(name, kind, table) ==
    LET r == createCommand(commandNames, [name |-> name, kind |-> kind, table |-> table])
    IN  /\ commandNames' = r.names
        /\ lastReg' = [op |-> "createCommand", name |-> name, kind |-> kind,
                       had |-> name \in DOMAIN commandNames,
                       threw |-> r.threw]
        /\ UNCHANGED <<reducers, rows, log, locks, call, reduced>>

\* ReducerObject.creator(eventInfo, creator)
Creator(table, name, fn) ==
    LET r == addReducer(reducers, table, name, [kind |-> "create", fn |-> fn])
    IN  /\ reducers' = r.reds
        /\ lastReg' = [op |-> "creator", name |-> name, table |-> table,
                       handler |-> [kind |-> "create", fn |-> fn],
                       before |-> reducers,
                       fromCommand |-> name \in DOMAIN commandNames,
                       threw |-> r.threw]
        /\ UNCHANGED <<commandNames, rows, log, locks, call, reduced>>

\* ReducerObject.updater(eventInfo, updater)
Updater(table, name, fn) ==
    LET r == addReducer(reducers, table, name, [kind |-> "modify", fn |-> fn])
    IN  /\ reducers' = r.reds
        /\ lastReg' = [op |-> "updater", name |-> name, table |-> table,
                       handler |-> [kind |-> "modify", fn |-> fn],
                       before |-> reducers,
                       fromCommand |-> name \in DOMAIN commandNames,
                       threw |-> r.threw]
        /\ UNCHANGED <<commandNames, rows, log, locks, call, reduced>>

RegNext ==
    \/ \E n \in RegNames, k \in Kinds, t \in Tables \cup {NoTable} : CreateCommand(n, k, t)
    \/ \E t \in Tables, n \in RegNames, f \in CreatorFns : Creator(t, n, f)
    \/ \E t \in Tables, n \in RegNames, f \in UpdaterFns : Updater(t, n, f)

SpecReg == RegInit /\ [][RegNext]_vars

(***************************************************************************)
(* The registrations the dispatcher runs against: five create/modify       *)
(* commands, two generic commands, and reducers with one pair left         *)
(* unregistered and both directions of kind mismatch.                      *)
(***************************************************************************)
Commands ==
    << [name |-> "createItem", kind |-> "create",  table |-> NoTable],
       [name |-> "createTag",  kind |-> "create",  table |-> "tags"],
       [name |-> "incItem",    kind |-> "modify",  table |-> "items"],
       [name |-> "setAny",     kind |-> "modify",  table |-> NoTable],
       [name |-> "clearAny",   kind |-> "modify",  table |-> NoTable],
       [name |-> "batch",      kind |-> "generic", table |-> NoTable],
       [name |-> "bumpItem",   kind |-> "generic", table |-> NoTable],
       [name |-> "retag",      kind |-> "modify",  table |-> "tags"] >>

Registrations ==
    << [table |-> "items", name |-> "createItem", reducer |-> [kind |-> "create", fn |-> "mkPart"]],
       [table |-> "tags",  name |-> "createItem", reducer |-> [kind |-> "modify", fn |-> "set"]],
       [table |-> "tags",  name |-> "createTag",  reducer |-> [kind |-> "create", fn |-> "mkFull"]],
       [table |-> "items", name |-> "incItem",    reducer |-> [kind |-> "modify", fn |-> "inc"]],
       [table |-> "items", name |-> "setAny",     reducer |-> [kind |-> "modify", fn |-> "set"]],
       [table |-> "items", name |-> "clearAny",   reducer |-> [kind |-> "modify", fn |-> "clear"]],
       [table |-> "tags",  name |-> "clearAny",   reducer |-> [kind |-> "create", fn |-> "mkPart"]],
       [table |-> "tags",  name |-> "retag",      reducer |-> [kind |-> "modify", fn |-> "set"]] >>

RECURSIVE RegisterCommands(_, _)
RegisterCommands(names, i) ==
    IF i > Len(Commands) THEN names
    ELSE RegisterCommands(createCommand(names, Commands[i]).names, i + 1)

RECURSIVE RegisterReducers(_, _)
RegisterReducers(reds, i) ==
    IF i > Len(Registrations) THEN reds
    ELSE RegisterReducers(
             addReducer(reds, Registrations[i].table, Registrations[i].name,
                        Registrations[i].reducer).reds, i + 1)

(***************************************************************************)
(* Reducer functions supplied by client code.                              *)
(***************************************************************************)
\* previous.value + 1 (null + 1 is 1 in JavaScript)
Plus1(v) == IF v = NULL THEN 1 ELSE v + 1

\* reducer.creator(event.data)
creator(fn, data) ==
    IF fn = "mkFull" THEN [name |-> data.value, value |-> data.value]
    ELSE [value |-> data.value]

\* reducer.updater(prev, event.data)
updater(fn, prev, data) ==
    IF fn = "inc" THEN [value |-> Plus1(prev.value)]
    ELSE IF fn = "set" THEN [value |-> data.value]
    ELSE [value |-> NULL]

(***************************************************************************)
(* The store: rows, transactions, row locks (the ts-postgres client and    *)
(* the statements schema.ts compiles).                                     *)
(***************************************************************************)
KnownIds == {1, 2}
\* the ids the store has left to give to inserted rows
FreshIds == {3, 4}
Ids == KnownIds \cup FreshIds

Actors == {"alice", "bob"}

\* the rows call c's statements see: its own uncommitted writes, else the
\* committed rows
Visible(c) ==
    [k \in (DOMAIN rows) \cup (DOMAIN call[c].txRows) |->
        IF k \in DOMAIN call[c].txRows THEN call[c].txRows[k] ELSE rows[k]]

UsedIds == {k[2] : k \in (DOMAIN rows) \cup UNION {DOMAIN call[c].txRows : c \in Calls}}

HasFresh == FreshIds \ UsedIds # {}

\* the id the store gives the next inserted row
FreshId == CHOOSE i \in FreshIds \ UsedIds : \A j \in FreshIds \ UsedIds : i <= j

\* a mutation of LockFree: SELECT without FOR UPDATE never waits
LockFreeAlways(c, k) == TRUE

\* a row lock is free for call c if nobody or c itself holds it
LockFree(c, k) == IF k \in DOMAIN locks THEN locks[k] = c ELSE TRUE

\* names.map((name) => data[name] ?? null)
rowData(names, data) ==
    [i \in 1 .. Len(names) |->
        IF names[i] \in DOMAIN data THEN data[names[i]] ELSE NULL]

\* createForTable: INSERT INTO t (names) VALUES ($1..$n)
insertRow(names, params) ==
    [col \in Range(names) |->
        params[CHOOSE i \in 1 .. Len(names) : names[i] = col]]

\* a mutation of updateRow: SET n = $i, a NULL parameter clears the column
updateRowAssign(names, old, params) ==
    [col \in Range(names) |->
        params[CHOOSE i \in 1 .. Len(names) : names[i] = col]]

\* updateForTable: SET n = COALESCE($i, n) for every column
updateRow(names, old, params) ==
    [col \in Range(names) |->
        LET v == params[CHOOSE i \in 1 .. Len(names) : names[i] = col]
        IN  IF v # NULL THEN v ELSE old[col]]

\* outputData = { id }, then every column by position of the selected row
outputData(id, names, data) ==
    [f \in {"id"} \cup Range(names) |-> IF f = "id" THEN id ELSE data[f]]

\* { ...selectedObjects[rowId], ...data }
spread(prev, data) ==
    [f \in (DOMAIN prev) \cup (DOMAIN data) |->
        IF f \in DOMAIN data THEN data[f] ELSE prev[f]]

\* the committed events-table rows of (table, rowId), ORDER BY id ASC
selectEvents(table, rowId) ==
    SelectSeq(log, LAMBDA e : e.tx = 0 /\ e.table_name = table /\ e.row_id = rowId)

(***************************************************************************)
(* Inputs of runCommand.                                                   *)
(***************************************************************************)
\* ids a caller can name: the rows known at start-up and those created since
IdsNow == KnownIds \cup {k[2] : k \in DOMAIN rows}

Inputs(command) ==
    CASE command.name = "createItem" ->
            [table : {"items"}, value : Vals] \cup [table : {"tags"}, value : {0}]
      [] command.name = "createTag"  -> [table : {NoTable}, value : Vals]
      [] command.name = "incItem"    -> [table : {NoTable}, value : {0}]
      [] command.name = "setAny"     ->
            [table : {"items"}, value : Vals] \cup [table : {"tags"}, value : {0}]
      [] command.name = "clearAny"   -> [table : Tables \cup {NoTable}, value : {0}]
      [] OTHER                       -> [table : {NoTable}, value : {0}]

\* results of command.mutator(input): fields in insertion order
Mutators ==
    {<< >>}
    \cup {<<[table |-> "items", id |-> i]>> : i \in IdsNow}
    \cup {<<[table |-> "items", id |-> 1], [table |-> "tags", id |-> 2]>>}

\* an object that is not an event the engine built: no event name
InvalidEvent == [name |-> "", kind |-> "create", table |-> "items", rowId |-> 0,
                 data |-> [value |-> 0]]

\* the events command.event(...) can build
EventsOf(command) ==
    IF command.kind = "create"
    THEN {creatorEvent(command.name, command.kind, command.table, in) :
             in \in Inputs(command)}
    ELSE IF command.kind = "modify"
    THEN {updaterEvent(command.name, command.kind, command.table, id, in) :
             id \in IdsNow, in \in Inputs(command)}
    ELSE {}

\* what a generic planActions can put in its result
PlanUniverse ==
    {Undefined, InvalidEvent}
    \cup UNION {EventsOf(Commands[j]) : j \in DOMAIN Commands}

(***************************************************************************)
(* runCommand (event.ts), one action per awaited step.                     *)
(***************************************************************************)
\* a throw inside the try block: control moves to the catch clause
Fail(c, fault) ==
    call' = [call EXCEPT ![c].pc = "rollback", ![c].fault = fault]

\* new Date(): a clock that advances with every invocation started
Clock == 1 + Cardinality({d \in Calls : call[d].pc # "idle"})

\* runCommand is called: now = new Date(); await client.query("begin")
RunCommand(c, command, input, actorId, mutator) ==
    /\ call[c].pc = "idle"
    /\ command.kind = "create" => HasFresh
    /\ reduced = NoReduce
    /\ \E ok \in BOOLEAN :
        call' = [call EXCEPT ![c] =
                    [IdleCall EXCEPT
                        !.pc = IF ok THEN "lock" ELSE "rollback",
                        !.fault = IF ok THEN "none" ELSE "query",
                        !.command = command, !.input = input,
                        !.actorId = actorId, !.now = Clock,
                        !.mutator = mutator,
                        !.issued = <<"begin">>,
                        !.snap = [rows |-> rows, log |-> log]]]
    /\ UNCHANGED <<regVars, storeVars, reduced>>

\* a mutation of Lock: a select that finds no row caches a row of nulls
LockCachesMissing(c) ==
    LET me == call[c]
        f == me.mutator[me.i + 1]
        key == <<f.table, f.id>>
        found == key \in DOMAIN Visible(c)
        out == outputData(f.id, namesForTable[f.table],
                          IF found THEN Visible(c)[key]
                          ELSE [col \in Columns(f.table) |-> NULL])
    IN  /\ me.pc = "lock"
        /\ me.i < Len(me.mutator)
        /\ \/ /\ Fail(c, "query")
              /\ UNCHANGED locks
           \/ /\ IF found THEN LockFree(c, key) ELSE TRUE
              /\ locks' = IF found THEN Put(locks, key, c) ELSE locks
              /\ call' = [call EXCEPT
                            ![c].i = me.i + 1,
                            ![c].selectedObjects = Put(me.selectedObjects, f.id, out),
                            ![c].mutatorData = Put(me.mutatorData, me.i + 1, out)]
        /\ UNCHANGED <<regVars, rows, log, reduced>>

\* one iteration of `for (const field in mutator)`: the table's
\* SELECT ... FOR UPDATE; a row that exists is locked and cached
Lock(c) ==
    LET me == call[c]
        f == me.mutator[me.i + 1]
        key == <<f.table, f.id>>
        out == outputData(f.id, namesForTable[f.table], Visible(c)[key])
    IN  /\ me.pc = "lock"
        /\ me.i < Len(me.mutator)
        /\ \/ /\ Fail(c, "query")
              /\ UNCHANGED locks
           \/ /\ key \notin DOMAIN Visible(c)
              /\ call' = [call EXCEPT ![c].i = me.i + 1]
              /\ UNCHANGED locks
           \/ /\ key \in DOMAIN Visible(c)
              /\ LockFree(c, key)
              /\ locks' = Put(locks, key, c)
              /\ call' = [call EXCEPT
                            ![c].i = me.i + 1,
                            ![c].selectedObjects = Put(me.selectedObjects, f.id, out),
                            ![c].mutatorData = Put(me.mutatorData, me.i + 1, out)]
        /\ UNCHANGED <<regVars, rows, log, reduced>>

\* a mutation of PlanActions: planning starts while mutator entries are
\* still to be locked
PlanActionsEarly(c) ==
    LET me == call[c]
        cmd == me.command
    IN  /\ me.pc = "lock"
        /\ \/ Fail(c, "plan")
           \/ /\ cmd.kind = "create"
              /\ call' = [call EXCEPT ![c].pc = "apply",
                            ![c].events = <<creatorEvent(cmd.name, cmd.kind, cmd.table, me.input)>>]
           \/ /\ cmd.kind = "modify"
              /\ \E id \in IdsNow :
                    call' = [call EXCEPT ![c].pc = "apply",
                               ![c].validated = id,
                               ![c].events = <<updaterEvent(cmd.name, cmd.kind, cmd.table, id, me.input)>>]
           \/ /\ cmd.kind = "generic"
              /\ call' = [call EXCEPT ![c].pc = "apply"]
        /\ UNCHANGED <<regVars, storeVars, reduced>>

\* a mutation of PlanActions: a failing validate yields an empty plan
PlanActionsSwallows(c) ==
    LET me == call[c]
        cmd == me.command
    IN  /\ me.pc = "lock"
        /\ me.i = Len(me.mutator)
        /\ \/ call' = [call EXCEPT ![c].pc = "apply", ![c].fault = "plan"]
           \/ /\ cmd.kind = "create"
              /\ call' = [call EXCEPT ![c].pc = "apply",
                            ![c].events = <<creatorEvent(cmd.name, cmd.kind, cmd.table, me.input)>>]
           \/ /\ cmd.kind = "modify"
              /\ \E id \in IdsNow :
                    call' = [call EXCEPT ![c].pc = "apply",
                               ![c].validated = id,
                               ![c].events = <<updaterEvent(cmd.name, cmd.kind, cmd.table, id, me.input)>>]
           \/ /\ cmd.kind = "generic"
              /\ call' = [call EXCEPT ![c].pc = "apply"]
        /\ UNCHANGED <<regVars, storeVars, reduced>>

\* command.planActions(client, input, mutatorData): for a create or modify
\* command, validate and then the single event; for a generic command the
\* supplied planning, whose events are drawn as the loop takes them
PlanActions(c) ==
    LET me == call[c]
        cmd == me.command
    IN  /\ me.pc = "lock"
        /\ me.i = Len(me.mutator)
        /\ \/ Fail(c, "plan")
           \/ /\ cmd.kind = "create"
              /\ call' = [call EXCEPT ![c].pc = "apply",
                            ![c].events = <<creatorEvent(cmd.name, cmd.kind, cmd.table, me.input)>>]
           \/ /\ cmd.kind = "modify"
              /\ \E id \in IdsNow :
                    call' = [call EXCEPT ![c].pc = "apply",
                               ![c].validated = id,
                               ![c].events = <<updaterEvent(cmd.name, cmd.kind, cmd.table, id, me.input)>>]
           \/ /\ cmd.kind = "generic"
              /\ call' = [call EXCEPT ![c].pc = "apply"]
        /\ UNCHANGED <<regVars, storeVars, reduced>>

\* what the planActions of the generic command bumpItem can put in its
\* result: an increment of item 1 and an assignment of 0 to it
BumpUniverse ==
    {updaterEvent("incItem", "modify", "items", 1, [table |-> NoTable, value |-> 0]),
     updaterEvent("setAny", "modify", NoTable, 1, [table |-> "items", value |-> 0])}

PlanUniverseOf(command) ==
    IF command.name = "bumpItem" THEN BumpUniverse ELSE PlanUniverse

\* the events the loop can take next
NextEvents(c) ==
    IF call[c].command.kind = "generic"
    THEN IF call[c].k < MaxEvents
         THEN {e \in PlanUniverseOf(call[c].command) :
                  (e.kind = "create" /\ e.name # "") => HasFresh}
         ELSE {}
    ELSE IF call[c].k < Len(call[c].events) THEN {call[c].events[call[c].k + 1]}
    ELSE {}

\* a mutation of entry: name and table parameters in each other's place
entrySwapped(c, eventName, table, id, data) ==
    [name |-> table, table_name |-> eventName, row_id |-> id,
     actor_id |-> call[c].actorId, data |-> data, created_at |-> call[c].now,
     tx |-> c]

\* the event-log row of an applied event
entry(c, eventName, table, id, data) ==
    [name |-> eventName, table_name |-> table, row_id |-> id,
     actor_id |-> call[c].actorId, data |-> data, created_at |-> call[c].now,
     tx |-> c]

\* the record of one event the loop took: how it ended, the row id it
\* touched, and the stored and the cached row after it
Took(e, out, id, row, cached) ==
    [event |-> e, out |-> out, id |-> id, row |-> row, cached |-> cached]

\* a mutation of Skip: the skipped event aborts the command
SkipAborts(c, e, out) ==
    /\ call' = [call EXCEPT ![c].k = call[c].k + 1, ![c].pc = "rollback",
                   ![c].taken = Append(call[c].taken, Took(e, out, 0, Undefined, Undefined))]
    /\ UNCHANGED locks

\* the loop body skips the event
Skip(c, e, out) ==
    /\ call' = [call EXCEPT ![c].k = call[c].k + 1,
                   ![c].taken = Append(call[c].taken, Took(e, out, 0, Undefined, Undefined))]
    /\ UNCHANGED locks

\* a mutation of ApplyCreate: an insert that returns no id is not fatal
ApplyCreateIgnoresMissingId(c, e, reducer) ==
    LET me == call[c]
        names == namesForTable[e.table]
        data == creator(reducer.fn, e.data)
        id == FreshId
    IN  \/ /\ HasFresh
           /\ call' = [call EXCEPT
                         ![c].k = me.k + 1,
                         ![c].taken = Append(me.taken,
                             Took(e, "create", id, insertRow(names, rowData(names, data)), Undefined)),
                         ![c].txRows = Put(me.txRows, <<e.table, id>>,
                                           insertRow(names, rowData(names, data))),
                         ![c].pending = entry(c, e.name, e.table, id, e.data),
                         ![c].pc = "addEvent"]
           /\ UNCHANGED locks
        \/ /\ call' = [call EXCEPT ![c].fault = "noid",
                         ![c].k = me.k + 1,
                         ![c].taken = Append(me.taken, Took(e, "create", 0, Undefined, Undefined)),
                         ![c].pending = entry(c, e.name, e.table, NULL, e.data),
                         ![c].pc = "addEvent"]
           /\ UNCHANGED locks
        \/ /\ call' = [call EXCEPT ![c].pc = "rollback", ![c].fault = "query",
                         ![c].k = me.k + 1,
                         ![c].taken = Append(me.taken, Took(e, "fatal", 0, Undefined, Undefined))]
           /\ UNCHANGED locks

\* reducer.kind === "create" && event.kind === "create"
ApplyCreate(c, e, reducer) ==
    LET me == call[c]
        names == namesForTable[e.table]
        data == creator(reducer.fn, e.data)
        id == FreshId
    IN  \/ /\ HasFresh
           /\ call' = [call EXCEPT
                         ![c].k = me.k + 1,
                         ![c].taken = Append(me.taken,
                             Took(e, "create", id, insertRow(names, rowData(names, data)), Undefined)),
                         ![c].txRows = Put(me.txRows, <<e.table, id>>,
                                           insertRow(names, rowData(names, data))),
                         ![c].pending = entry(c, e.name, e.table, id, e.data),
                         ![c].pc = "addEvent"]
           /\ UNCHANGED locks
        \/ \E fault \in {"noid", "query"} :
              /\ call' = [call EXCEPT ![c].pc = "rollback", ![c].fault = fault,
                            ![c].k = me.k + 1,
                            ![c].taken = Append(me.taken, Took(e, "fatal", 0, Undefined, Undefined))]
              /\ UNCHANGED locks

\* a mutation of ApplyModify that does not require the row to be cached
ApplyModifyUnchecked(c, e, reducer) ==
    LET me == call[c]
        names == namesForTable[e.table]
        key == <<e.table, e.rowId>>
        prev == IF e.rowId \in DOMAIN me.selectedObjects
                THEN me.selectedObjects[e.rowId] ELSE [id |-> e.rowId, value |-> NULL]
        data == updater(reducer.fn, prev, e.data)
        after == IF key \in DOMAIN Visible(c)
                 THEN updateRow(names, Visible(c)[key], rowData(names, data))
                 ELSE Undefined
    IN  /\ call' = [call EXCEPT
                      ![c].k = me.k + 1,
                      ![c].taken = Append(me.taken,
                          Took(e, "modify", e.rowId, after, spread(prev, data))),
                      ![c].txRows = IF key \in DOMAIN Visible(c)
                                    THEN Put(me.txRows, key, after)
                                    ELSE me.txRows,
                      ![c].pending = entry(c, e.name, e.table, e.rowId, e.data),
                      ![c].pc = "addEvent"]
        /\ key \in DOMAIN Visible(c) => LockFree(c, key)
        /\ locks' = IF key \in DOMAIN Visible(c) THEN Put(locks, key, c) ELSE locks

\* reducer.kind === "modify" && event.kind === "modify"
ApplyModify(c, e, reducer) ==
    LET me == call[c]
        names == namesForTable[e.table]
        key == <<e.table, e.rowId>>
        prev == me.selectedObjects[e.rowId]
        data == updater(reducer.fn, prev, e.data)
        after == IF key \in DOMAIN Visible(c)
                 THEN updateRow(names, Visible(c)[key], rowData(names, data))
                 ELSE Undefined
    IN  IF e.rowId \notin DOMAIN me.selectedObjects
        THEN /\ call' = [call EXCEPT ![c].pc = "rollback", ![c].fault = "notlocked",
                           ![c].k = me.k + 1,
                           ![c].taken = Append(me.taken, Took(e, "fatal", 0, Undefined, Undefined))]
             /\ UNCHANGED locks
        ELSE \/ /\ call' = [call EXCEPT ![c].pc = "rollback", ![c].fault = "query",
                              ![c].k = me.k + 1,
                              ![c].taken = Append(me.taken, Took(e, "fatal", 0, Undefined, Undefined)),
                              ![c].selectedObjects = Put(me.selectedObjects, e.rowId, spread(prev, data))]
                /\ UNCHANGED locks
             \/ /\ key \in DOMAIN Visible(c) => LockFree(c, key)
                /\ locks' = IF key \in DOMAIN Visible(c) THEN Put(locks, key, c) ELSE locks
                /\ call' = [call EXCEPT
                              ![c].k = me.k + 1,
                              ![c].taken = Append(me.taken,
                                  Took(e, "modify", e.rowId, after, spread(prev, data))),
                              ![c].selectedObjects = Put(me.selectedObjects, e.rowId, spread(prev, data)),
                              ![c].txRows = IF key \in DOMAIN Visible(c)
                                            THEN Put(me.txRows, key, after)
                                            ELSE me.txRows,
                              ![c].pending = entry(c, e.name, e.table, e.rowId, e.data),
                              ![c].pc = "addEvent"]

\* a mutation of ApplyEvent: a reducer of the other kind is a fatal error
ApplyEventMismatchFatal(c) ==
    /\ call[c].pc = "apply"
    /\ \E e \in NextEvents(c) :
          LET reducer == lookupReducer(reducers, e.table, e.name)
          IN  IF e = Undefined THEN Skip(c, e, "noop")
              ELSE IF e.name = "" THEN Skip(c, e, "invalid")
              ELSE IF ~Truthy(reducer) THEN Skip(c, e, "noreducer")
              ELSE IF reducer.kind = "create" /\ e.kind = "create"
                   THEN ApplyCreate(c, e, reducer)
              ELSE IF reducer.kind = "modify" /\ e.kind = "modify"
                   THEN ApplyModify(c, e, reducer)
              ELSE SkipAborts(c, e, "mismatch")
    /\ UNCHANGED <<regVars, rows, log, reduced>>

\* one iteration of `for (const event of events)` up to its first query
ApplyEvent(c) ==
    /\ call[c].pc = "apply"
    /\ \E e \in NextEvents(c) :
          LET reducer == lookupReducer(reducers, e.table, e.name)
          IN  IF e = Undefined THEN Skip(c, e, "noop")
              ELSE IF e.name = "" THEN Skip(c, e, "invalid")
              ELSE IF ~Truthy(reducer) THEN Skip(c, e, "noreducer")
              ELSE IF reducer.kind = "create" /\ e.kind = "create"
                   THEN ApplyCreate(c, e, reducer)
              ELSE IF reducer.kind = "modify" /\ e.kind = "modify"
                   THEN ApplyModify(c, e, reducer)
              ELSE Skip(c, e, "mismatch")
    /\ UNCHANGED <<regVars, rows, log, reduced>>

\* a mutation of AddEvent: the loop goes on without appending the entry
AddEventDropped(c) ==
    /\ call[c].pc = "addEvent"
    /\ call' = [call EXCEPT ![c].pc = "apply"]
    /\ UNCHANGED <<regVars, rows, locks, reduced, log>>

\* a mutation of AddEvent: the entry is put in front of the log
AddEventPrepended(c) ==
    /\ call[c].pc = "addEvent"
    /\ \/ /\ Fail(c, "query")
          /\ UNCHANGED log
       \/ /\ log' = <<call[c].pending>> \o log
          /\ call' = [call EXCEPT ![c].pc = "apply",
                        ![c].appended = Append(call[c].appended, call[c].pending)]
    /\ UNCHANGED <<regVars, rows, locks, reduced>>

\* await client.query(addEvent, [...]) after the insert or update
AddEvent(c) ==
    /\ call[c].pc = "addEvent"
    /\ \/ /\ Fail(c, "query")
          /\ UNCHANGED log
       \/ /\ log' = Append(log, call[c].pending)
          /\ call' = [call EXCEPT ![c].pc = "apply",
                        ![c].appended = Append(call[c].appended, call[c].pending)]
    /\ UNCHANGED <<regVars, rows, locks, reduced>>

\* the rows after call c's transaction commits
Committed(c) == Visible(c)

\* a mutation of Commit: commit is issued while events remain to be taken
CommitEarly(c) ==
    LET me == call[c] IN
    /\ me.pc = "apply"
    /\ rows' = Committed(c)
    /\ log' = [j \in DOMAIN log |->
                  IF log[j].tx = c THEN [log[j] EXCEPT !.tx = 0] ELSE log[j]]
    /\ locks' = [k \in {x \in DOMAIN locks : locks[x] # c} |-> locks[k]]
    /\ call' = [call EXCEPT ![c].pc = "done", ![c].outcome = "committed",
                  ![c].issued = Append(me.issued, "commit"),
                  ![c].wrote = me.txRows, ![c].txRows = EmptyObj]
    /\ UNCHANGED <<regVars, reduced>>

\* await client.query("commit") once the loop has taken every event
Commit(c) ==
    LET me == call[c] IN
    /\ me.pc = "apply"
    /\ \/ me.command.kind = "generic"
       \/ me.k = Len(me.events)
    /\ \/ /\ call' = [call EXCEPT ![c].pc = "rollback", ![c].fault = "query",
                        ![c].issued = Append(me.issued, "commit")]
          /\ UNCHANGED storeVars
       \/ /\ rows' = Committed(c)
          /\ log' = [j \in DOMAIN log |->
                        IF log[j].tx = c THEN [log[j] EXCEPT !.tx = 0] ELSE log[j]]
          /\ locks' = [k \in {x \in DOMAIN locks : locks[x] # c} |-> locks[k]]
          /\ call' = [call EXCEPT ![c].pc = "done", ![c].outcome = "committed",
                        ![c].issued = Append(me.issued, "commit"),
                        ![c].wrote = me.txRows, ![c].txRows = EmptyObj]
    /\ UNCHANGED <<regVars, reduced>>

\* a mutation of Rollback: the catch clause ends the transaction by
\* committing what was written
RollbackKeepsWrites(c) ==
    LET me == call[c] IN
    /\ me.pc = "rollback"
    /\ rows' = Committed(c)
    /\ log' = [j \in DOMAIN log |->
                  IF log[j].tx = c THEN [log[j] EXCEPT !.tx = 0] ELSE log[j]]
    /\ locks' = [k \in {x \in DOMAIN locks : locks[x] # c} |-> locks[k]]
    /\ call' = [call EXCEPT ![c].pc = "done", ![c].outcome = "rolledback",
                  ![c].issued = Append(me.issued, "rollback"),
                  ![c].wrote = me.txRows, ![c].txRows = EmptyObj]
    /\ UNCHANGED <<regVars, reduced>>

\* catch (e) { await client.query("rollback") }; ROLLBACK itself succeeds on
\* a connection that is still open
Rollback(c) ==
    LET me == call[c] IN
    /\ me.pc = "rollback"
    /\ log' = SelectSeq(log, LAMBDA e : e.tx # c)
    /\ locks' = [k \in {x \in DOMAIN locks : locks[x] # c} |-> locks[k]]
    /\ call' = [call EXCEPT ![c].pc = "done", ![c].outcome = "rolledback",
                  ![c].issued = Append(me.issued, "rollback"),
                  ![c].wrote = me.txRows, ![c].txRows = EmptyObj]
    /\ UNCHANGED <<regVars, rows, reduced>>

\* a mutation of Return: a rolled-back invocation rejects its promise
ReturnRethrows(c) ==
    /\ call[c].pc = "done"
    /\ call' = [call EXCEPT ![c] =
                  [IdleCall EXCEPT !.pc = "returned",
                      !.result = IF call[c].outcome = "committed"
                                 THEN "undefined" ELSE "rejected"]]
    /\ UNCHANGED <<regVars, storeVars, reduced>>

\* runCommand's promise resolves with undefined on either path; its locals
\* are gone
Return(c) ==
    /\ call[c].pc = "done"
    /\ call' = [call EXCEPT ![c] =
                  [IdleCall EXCEPT !.pc = "returned", !.result = "undefined"]]
    /\ UNCHANGED <<regVars, storeVars, reduced>>

(***************************************************************************)
(* reduceRow (event.ts): reads the row's events and returns {}.            *)
(***************************************************************************)
reduceRow(table, rowId) == EmptyObj

ReduceRow(table, rowId) ==
    /\ \A c \in Calls : call[c].pc \in {"idle", "returned"}
    /\ reduced' = [op |-> "reduceRow", table |-> table, rowId |-> rowId,
                   entries |-> selectEvents(table, rowId),
                   threw |-> FALSE,
                   result |-> reduceRow(table, rowId)]
    /\ UNCHANGED <<regVars, storeVars, call>>

(***************************************************************************)
(* Specifications.                                                         *)
(***************************************************************************)
InitRows ==
    [k \in {<<"items", 1>>, <<"tags", 2>>} |->
        IF k[1] = "items" THEN [name |-> NULL, value |-> 1] ELSE [value |-> 0]]

InitLog ==
    << [name |-> "createItem", table_name |-> "items", row_id |-> 1,
        actor_id |-> "alice", data |-> [value |-> 0], created_at |-> 0, tx |-> 0],
       [name |-> "incItem", table_name |-> "items", row_id |-> 1,
        actor_id |-> "bob", data |-> [value |-> 0], created_at |-> 0, tx |-> 0],
       [name |-> "setAny", table_name |-> "items", row_id |-> 1,
        actor_id |-> "alice", data |-> [value |-> 1], created_at |-> 0, tx |-> 0],
       [name |-> "createTag", table_name |-> "tags", row_id |-> 2,
        actor_id |-> "alice", data |-> [value |-> 0], created_at |-> 0, tx |-> 0] >>

\* after start-up: registries populated; the store holds an item the
\* engine created and then modified twice, and a tag it created
Init ==
    /\ commandNames = RegisterCommands(EmptyObj, 1)
    /\ reducers = RegisterReducers(EmptyObj, 1)
    /\ lastReg = [op |-> "none"]
    /\ rows = InitRows
    /\ log = InitLog
    /\ locks = EmptyObj
    /\ call = [c \in Calls |-> IdleCall]
    /\ reduced = NoReduce

\* the actor behind each connection
ActorOf(c) == IF c = 1 THEN "alice" ELSE "bob"

\* client code calls runCommand with a registered command
Start(c) ==
    \E j \in DOMAIN Commands, m \in Mutators :
        \E in \in Inputs(Commands[j]) : RunCommand(c, Commands[j], in, ActorOf(c), m)

Step(c) ==
    \/ Start(c)
    \/ Lock(c)
    \/ PlanActions(c)
    \/ ApplyEvent(c)
    \/ AddEvent(c)
    \/ Commit(c)
    \/ Rollback(c)
    \/ Return(c)

\* one connection, invocations one after another
Next ==
    \/ Step(1)
    \/ \E t \in Tables, id \in KnownIds : ReduceRow(t, id)

Spec == Init /\ [][Next]_vars

\* the modify command of the fixture whose updater is previous.value + 1
incItem == Commands[3]

\* client code calls runCommand(client, incItem, {}, actor) on its own
\* connection; the command's mutator names item 1
StartInc(c) ==
    \E a \in Actors :
        RunCommand(c, incItem, [table |-> NoTable, value |-> 0], a,
                   <<[table |-> "items", id |-> 1]>>)

StepInc(c) ==
    \/ StartInc(c)
    \/ Lock(c)
    \/ PlanActions(c)
    \/ ApplyEvent(c)
    \/ AddEvent(c)
    \/ Commit(c)
    \/ Rollback(c)
    \/ Return(c)

\* two connections, their invocations interleaved at every awaited step
NextConc == \E c \in Calls : StepInc(c)

SpecConc == Init /\ [][NextConc]_vars

\* the generic command whose plans are modifications of item 1
bumpItem == Commands[7]

\* client code calls runCommand(client, bumpItem, {}, actor) on its own
\* connection; the command's mutator names item 1
StartBump(c) ==
    RunCommand(c, bumpItem, [table |-> NoTable, value |-> 0], ActorOf(c),
               <<[table |-> "items", id |-> 1]>>)

StepBump(c) ==
    \/ StartBump(c)
    \/ Lock(c)
    \/ PlanActions(c)
    \/ ApplyEvent(c)
    \/ AddEvent(c)
    \/ Commit(c)
    \/ Rollback(c)
    \/ Return(c)

NextOrder == \E c \in Calls : StepBump(c)

\* two connections, each running a command of several events on item 1
SpecOrder == Init /\ [][NextOrder]_vars

\* the two rows of the fixture, as a mutator names them in either field order
ItemThenTag == <<[table |-> "items", id |-> 1], [table |-> "tags", id |-> 2]>>
TagThenItem == <<[table |-> "tags", id |-> 2], [table |-> "items", id |-> 1]>>

\* client code calls runCommand(client, bumpItem, {}, actor) on its own
\* connection; the command's mutator names both rows
StartPair(c) ==
    \E m \in {ItemThenTag, TagThenItem} :
        RunCommand(c, bumpItem, [table |-> NoTable, value |-> 0], ActorOf(c), m)

StepPair(c) ==
    \/ StartPair(c)
    \/ Lock(c)
    \/ PlanActions(c)
    \/ ApplyEvent(c)
    \/ AddEvent(c)
    \/ Commit(c)
    \/ Rollback(c)
    \/ Return(c)

NextPair == \E c \in Calls : StepPair(c)

\* a step of the invocation in which no statement or callback fails: the
\* event loop resumes every invocation whose awaited promise has settled,
\* and the store answers every statement that is not waiting for a row lock
Progress(c) == StepPair(c) /\ call'[c].fault \in {"none", call[c].fault}

\* two connections, each running a command whose mutator names items/1 and
\* tags/2 in one of the two orders; a statement may fail at any time, but
\* nothing obliges the store to fail one
SpecPair == Init /\ [][NextPair]_vars /\ \A c \in Calls : WF_vars(Progress(c))

(***************************************************************************)
(* Vocabulary of the properties.                                           *)
(***************************************************************************)
\* the kind of the handler registered for (table, name), "none" if none
RegisteredKind(table, name) ==
    IF table \in DOMAIN reducers
    THEN IF name \in DOMAIN reducers[table] THEN reducers[table][name].kind ELSE "none"
    ELSE "none"

RegisteredFn(table, name) == reducers[table][name].fn

IsEvent(e) == e # Undefined /\ e.name # ""
IsCreation(e) == IsEvent(e) /\ e.kind = "create"
IsModification(e) == IsEvent(e) /\ e.kind = "modify"

Applied(t) == t.out \in {"create", "modify"}

\* the store as it was when the invocation began, with `writes` on top
Overlay(base, writes) ==
    [k \in (DOMAIN base) \cup (DOMAIN writes) |->
        IF k \in DOMAIN writes THEN writes[k] ELSE base[k]]

AsCommitted(entries) == [j \in DOMAIN entries |-> [entries[j] EXCEPT !.tx = 0]]

StoreAsBefore(c) == rows = call[c].snap.rows /\ log = call[c].snap.log

\* the ids the mutator named whose row existed when it was locked
LockedIds(c) ==
    {call[c].mutator[i].id : i \in
        {j \in DOMAIN call[c].mutator :
            <<call[c].mutator[j].table, call[c].mutator[j].id>> \in DOMAIN call[c].snap.rows}}

(***************************************************************************)
(* C1: when a runCommand invocation has ended, either it committed and     *)
(* every row it wrote and every log entry it appended is in the store, on  *)
(* top of the store as it was before the call, or it rolled back and rows  *)
(* and log are exactly as before the call -- also when the failure came    *)
(* after earlier events had been applied.                                  *)
(***************************************************************************)
C1_AllOrNothing ==
    \A c \in Calls :
        call[c].pc = "done" =>
            IF call[c].outcome = "committed"
            THEN /\ rows = Overlay(call[c].snap.rows, call[c].wrote)
                 /\ log = call[c].snap.log \o AsCommitted(call[c].appended)
                 /\ Len(call[c].appended) =
                        Cardinality({j \in DOMAIN call[c].taken : Applied(call[c].taken[j])})
            ELSE /\ call[c].outcome = "rolledback"
                 /\ StoreAsBefore(c)

\* a rolled-back invocation whose second event failed after the first had
\* written a row and appended its log entry
C1_FailedAfterApplying ==
    \E c \in Calls :
        /\ call[c].pc = "done"
        /\ call[c].outcome = "rolledback"
        /\ Len(call[c].taken) = 2
        /\ Applied(call[c].taken[1])
        /\ call[c].taken[2].out = "fatal"
        /\ call[c].wrote # EmptyObj
        /\ Len(call[c].appended) = 1

(***************************************************************************)
(* C2: two concurrent invocations of the increment command naming item 1   *)
(* serialize on the row lock: at no time do both hold the row in their     *)
(* open transactions, an invocation that has just locked the row has       *)
(* cached the committed value, and when both have committed an increment   *)
(* the stored value is the initial value plus 2.  (Return can always be    *)
(* delayed, so the states where both invocations are "done" cover every    *)
(* interleaving of the awaited steps.)                                     *)
(***************************************************************************)
Item1 == <<"items", 1>>

InTransaction(c) == call[c].pc \in {"lock", "apply", "addEvent", "rollback"}

HoldsItem1(c) == InTransaction(c) /\ 1 \in DOMAIN call[c].selectedObjects

CommittedIncrement(c) ==
    /\ call[c].pc = "done"
    /\ call[c].outcome = "committed"
    /\ Len(call[c].taken) = 1
    /\ call[c].taken[1].out = "modify"
    /\ call[c].taken[1].event.rowId = 1

C2_IncrementsSerialize ==
    /\ \A c, d \in Calls : (c # d /\ HoldsItem1(c)) => ~HoldsItem1(d)
    /\ \A c \in Calls :
          (HoldsItem1(c) /\ call[c].pc = "lock") =>
              call[c].selectedObjects[1].value = rows[Item1].value
    /\ (\A c \in Calls : CommittedIncrement(c)) =>
          rows[Item1].value = InitRows[Item1].value + Cardinality(Calls)

\* both invocations began before either had committed, and both committed
C2_BothCommittedOverlapping ==
    /\ \A c \in Calls :
          /\ CommittedIncrement(c)
          /\ call[c].snap.rows[Item1].value = InitRows[Item1].value
    /\ rows[Item1].value = InitRows[Item1].value + 2

(***************************************************************************)
(* C3: a Modification event with a registered modify reducer whose rowId   *)
(* the mutator did not name, or named without the row existing, is the     *)
(* last event the invocation takes: the command fails there, and once it   *)
(* has ended it is rolled back with rows and log as before the call.       *)
(***************************************************************************)
C3_UnlockedTargetAborts ==
    \A c \in Calls : \A j \in DOMAIN call[c].taken :
        LET e == call[c].taken[j].event IN
        (/\ IsModification(e)
         /\ RegisteredKind(e.table, e.name) = "modify"
         /\ e.rowId \notin LockedIds(c))
        => /\ call[c].taken[j].out = "fatal"
           /\ j = Len(call[c].taken)
           /\ call[c].pc \in {"rollback", "done"}
           /\ call[c].fault = "notlocked"
           /\ call[c].pc = "done" =>
                 (call[c].outcome = "rolledback" /\ StoreAsBefore(c))

\* an invocation rolled back on such an event after an earlier event of
\* the same call had been applied
C3_AbortedAfterApplying ==
    \E c \in Calls :
        /\ call[c].pc = "done"
        /\ call[c].fault = "notlocked"
        /\ Len(call[c].taken) = 2
        /\ call[c].taken[1].out = "modify"
        /\ call[c].taken[2].event.rowId \notin LockedIds(c)
        /\ call[c].wrote # EmptyObj

(***************************************************************************)
(* C4: taking an event whose (table, name) has no registered reducer       *)
(* writes no row, appends no log entry, and leaves the loop running: the   *)
(* invocation goes on to the next event or to commit.                      *)
(***************************************************************************)
NoReducerFor(e) == IsEvent(e) /\ RegisteredKind(e.table, e.name) = "none"

C4_UnregisteredEventSkipped ==
    [][\A c \in Calls :
          (/\ call[c].pc = "apply"
           /\ Len(call'[c].taken) = Len(call[c].taken) + 1
           /\ NoReducerFor(call'[c].taken[Len(call'[c].taken)].event))
          => /\ call'[c].pc = "apply"
             /\ call'[c].taken[Len(call'[c].taken)].out = "noreducer"
             /\ call'[c].txRows = call[c].txRows
             /\ call'[c].appended = call[c].appended
             /\ call'[c].fault = "none"
             /\ <<rows, log, locks>>' = <<rows, log, locks>>]_vars

\* a committed invocation that skipped an unregistered event and then
\* applied the next one
C4_SkippedThenApplied ==
    \E c \in Calls :
        /\ call[c].pc = "done"
        /\ call[c].outcome = "committed"
        /\ Len(call[c].taken) = 2
        /\ NoReducerFor(call[c].taken[1].event)
        /\ call[c].taken[1].event.table \in Tables
        /\ Applied(call[c].taken[2])
        /\ Len(call[c].appended) = 1

(***************************************************************************)
(* Vocabulary of the registry properties.                                  *)
(***************************************************************************)
\* the handler registered for (table, name) in registry reds, Undefined if none
HandlerIn(reds, table, name) ==
    IF table \in DOMAIN reds
    THEN IF name \in DOMAIN reds[table] THEN reds[table][name] ELSE Undefined
    ELSE Undefined

IsReducerCall == lastReg.op \in {"creator", "updater"}

(***************************************************************************)
(* C5: createCommand fails with the duplicate-command error exactly when   *)
(* the name was registered by an earlier createCommand call, and then      *)
(* registers nothing; with a name no earlier call registered it succeeds   *)
(* and the name is registered afterwards.                                  *)
(***************************************************************************)
C5_DuplicateIffRegistered ==
    lastReg.op = "createCommand" =>
        /\ lastReg.threw <=> lastReg.had
        /\ lastReg.name \in DOMAIN commandNames <=> (lastReg.had \/ ~lastReg.threw)

CreationsOf(c) ==
    {j \in DOMAIN call[c].taken :
        /\ IsCreation(call[c].taken[j].event)
        /\ RegisteredKind(call[c].taken[j].event.table,
                          call[c].taken[j].event.name) = "create"}

C7_CreationInsertsRowAndEntry ==
    \A c \in Calls :
        (call[c].pc = "done" /\ call[c].outcome = "committed") =>
            /\ \A j \in CreationsOf(c) :
                  LET t == call[c].taken[j]
                      e == t.event
                      key == <<e.table, t.id>>
                      out == creator(RegisteredFn(e.table, e.name), e.data)
                  IN  /\ t.out = "create"
                      /\ key \notin DOMAIN call[c].snap.rows
                      /\ key \in DOMAIN rows
                      /\ rows[key] = [col \in Columns(e.table) |->
                                         IF col \in DOMAIN out THEN out[col] ELSE NULL]
                      /\ selectEvents(e.table, t.id) =
                            << [name |-> e.name, table_name |-> e.table,
                                row_id |-> t.id, actor_id |-> call[c].actorId,
                                data |-> e.data, created_at |-> call[c].now,
                                tx |-> 0] >>
                      /\ \A i \in CreationsOf(c) :
                            i # j => call[c].taken[i].id # t.id
            /\ Cardinality((DOMAIN rows) \ (DOMAIN call[c].snap.rows)) =
                   Cardinality(CreationsOf(c))

\* a committed invocation that created an item from a creator returning
\* only `value`: the `name` column of the new row is NULL
C7_CreatedPartialRow ==
    \E c \in Calls :
        /\ call[c].pc = "done"
        /\ call[c].outcome = "committed"
        /\ \E j \in CreationsOf(c) :
              /\ call[c].taken[j].event.table = "items"
              /\ call[c].taken[j].event.data.value = 1
              /\ <<"items", call[c].taken[j].id>> \in DOMAIN rows
              /\ rows[<<"items", call[c].taken[j].id>>] = [name |-> NULL, value |-> 1]

(***************************************************************************)
(* C8: reduceRow on a row whose log is one create entry followed by        *)
(* modify entries returns the fold of the log: the creator applied to the  *)
(* first entry's payload, then every later entry's updater result merged   *)
(* on top of the running state.                                            *)
(***************************************************************************)
CreateThenModifies(table, entries) ==
    /\ Len(entries) >= 1
    /\ HandlerIn(reducers, table, entries[1].name).kind = "create"
    /\ \A i \in 2 .. Len(entries) :
          HandlerIn(reducers, table, entries[i].name).kind = "modify"

RECURSIVE FoldEntries(_, _, _, _)
FoldEntries(table, entries, i, state) ==
    IF i > Len(entries) THEN state
    ELSE LET fn == HandlerIn(reducers, table, entries[i].name).fn
         IN  FoldEntries(table, entries, i + 1,
                 IF i = 1 THEN creator(fn, entries[i].data)
                 ELSE spread(state, updater(fn, state, entries[i].data)))

C8_ReduceRowFoldsLog ==
    (reduced.op = "reduceRow" /\ CreateThenModifies(reduced.table, reduced.entries)) =>
        reduced.result = FoldEntries(reduced.table, reduced.entries, 1, EmptyObj)

(***************************************************************************)
(* C9: every reduceRow call leaves rows and event log unchanged, and a     *)
(* call for a (table, rowId) without log entries fails with "row not       *)
(* found".                                                                 *)
(***************************************************************************)
C9_EmptyLogIsNotFound ==
    [][(reduced' # reduced /\ reduced'.op = "reduceRow") =>
          /\ rows' = rows
          /\ log' = log
          /\ reduced'.entries = << >> => reduced'.threw]_vars

(***************************************************************************)
(* C10 as stated: when an invocation applies the same Modification event   *)
(* twice in succession, the stored row after the second application        *)
(* equals the stored row after the first.                                  *)
(***************************************************************************)
AppliedTwice(c, j) ==
    /\ j + 1 \in DOMAIN call[c].taken
    /\ call[c].taken[j].out = "modify"
    /\ call[c].taken[j + 1].out = "modify"
    /\ call[c].taken[j + 1].event = call[c].taken[j].event
    /\ call[c].taken[j].row # Undefined

C10_ReplayLeavesRow ==
    \A c \in Calls : \A j \in DOMAIN call[c].taken :
        AppliedTwice(c, j) => call[c].taken[j + 1].row = call[c].taken[j].row

(***************************************************************************)
(* C10 amended: the second application leaves the stored row as the first  *)
(* left it when the updater's result is determined by the payload alone    *)
(* (it does not read the previous row); and once the invocation has        *)
(* committed, the event log of every row has grown by exactly one entry    *)
(* per Modification event applied to it, whatever the updater.             *)
(***************************************************************************)
PrevRows == [id : Ids, name : {NULL}, value : Vals \cup {NULL}]

PayloadOnly(fn, data) ==
    \A p, q \in PrevRows : updater(fn, p, data) = updater(fn, q, data)

ModifiedBy(c, table, id) ==
    {j \in DOMAIN call[c].taken :
        /\ call[c].taken[j].out = "modify"
        /\ call[c].taken[j].event.table = table
        /\ call[c].taken[j].event.rowId = id}

EntriesOf(entries, table, id) ==
    SelectSeq(entries, LAMBDA e : e.table_name = table /\ e.row_id = id)

C10_ReplayLeavesRowIfPayloadOnly ==
    \A c \in Calls :
        /\ \A j \in DOMAIN call[c].taken :
              (/\ AppliedTwice(c, j)
               /\ PayloadOnly(RegisteredFn(call[c].taken[j].event.table,
                                           call[c].taken[j].event.name),
                              call[c].taken[j].event.data))
              => call[c].taken[j + 1].row = call[c].taken[j].row
        /\ (call[c].pc = "done" /\ call[c].outcome = "committed") =>
              \A t \in Tables, id \in KnownIds :
                  Len(EntriesOf(log, t, id)) =
                      Len(EntriesOf(call[c].snap.log, t, id))
                      + Cardinality(ModifiedBy(c, t, id))

\* a committed invocation that applied the same payload-only modify event
\* twice to a row whose value the first application changed
C10_SetTwice ==
    \E c \in Calls :
        /\ call[c].pc = "done"
        /\ call[c].outcome = "committed"
        /\ AppliedTwice(c, 1)
        /\ PayloadOnly(RegisteredFn(call[c].taken[1].event.table,
                                    call[c].taken[1].event.name),
                       call[c].taken[1].event.data)
        /\ call[c].taken[1].row #
              call[c].snap.rows[<<call[c].taken[1].event.table,
                                  call[c].taken[1].event.rowId>>]
        /\ Cardinality(ModifiedBy(c, call[c].taken[1].event.table,
                                  call[c].taken[1].event.rowId)) = 2

(***************************************************************************)
(* C11: once planActions has been invoked (it returned, or it failed), the *)
(* lock-and-select statement has been executed for every entry of the      *)
(* mutator; and while the invocation is still in the lock loop, before     *)
(* planActions has returned, it has inserted or updated no row, appended   *)
(* no log entry and taken no event.                                        *)
(***************************************************************************)
PlanningInvoked(c) ==
    \/ call[c].pc \in {"apply", "addEvent"}
    \/ call[c].fault = "plan"
    \/ call[c].pc = "done" /\ call[c].outcome = "committed"

C11_LockedBeforePlanning ==
    \A c \in Calls :
        /\ PlanningInvoked(c) =>
              /\ call[c].i = Len(call[c].mutator)
              /\ \A j \in DOMAIN call[c].mutator :
                    <<call[c].mutator[j].table, call[c].mutator[j].id>>
                        \in DOMAIN call[c].snap.rows
                    => j \in DOMAIN call[c].mutatorData
        /\ call[c].pc = "lock" =>
              /\ call[c].txRows = EmptyObj
              /\ call[c].appended = << >>
              /\ call[c].taken = << >>
              /\ \A j \in DOMAIN log : log[j].tx # c

\* planning has returned for a mutator of two entries, both locked, and
\* the first event has written a row
C11_PlannedAfterTwoLocks ==
    \E c \in Calls :
        /\ call[c].pc = "addEvent"
        /\ Len(call[c].mutator) = 2
        /\ call[c].i = 2
        /\ DOMAIN call[c].mutatorData = {1, 2}
        /\ call[c].txRows # EmptyObj

(***************************************************************************)
(* C12: the event-log entries of one invocation are, in log order, the     *)
(* events it applied in the order the loop took them from the plan; an     *)
(* uncommitted entry for a row is never followed by an entry of another    *)
(* invocation for that row, so with two commands on the same row all       *)
(* entries of the one that locked the row first precede all entries of     *)
(* the other.                                                              *)
(***************************************************************************)
Started(c) == call[c].pc \notin {"idle", "returned"}

\* positions in the log of the entries invocation c appended (its
\* timestamp marks them)
PositionsOf(c) == {j \in DOMAIN log : log[j].created_at = call[c].now}

EntriesFrom(c) == SelectSeq(log, LAMBDA e : e.created_at = call[c].now)

AppliedEvents(c) == SelectSeq(call[c].taken, LAMBDA t : Applied(t))

EntryMatches(en, t) ==
    /\ en.name = t.event.name
    /\ en.table_name = t.event.table
    /\ en.row_id = t.id
    /\ en.data = t.event.data

C12_LogOrderIsPlanOrder ==
    /\ \A c \in Calls :
          (call[c].pc = "apply" \/ (call[c].pc = "done" /\ call[c].outcome = "committed"))
          => /\ Len(EntriesFrom(c)) = Len(AppliedEvents(c))
             /\ \A j \in DOMAIN AppliedEvents(c) :
                   EntryMatches(EntriesFrom(c)[j], AppliedEvents(c)[j])
    /\ \A i, j \in DOMAIN log :
          (/\ i < j
           /\ log[i].tx # 0
           /\ log[i].table_name = log[j].table_name
           /\ log[i].row_id = log[j].row_id)
          => log[j].tx = log[i].tx
    /\ \A c, d \in Calls :
          (c # d /\ Started(c) /\ Started(d)) =>
              \/ \A i \in PositionsOf(c), j \in PositionsOf(d) : i < j
              \/ \A i \in PositionsOf(c), j \in PositionsOf(d) : j < i

\* two overlapping invocations that both committed two different events on
\* item 1
C12_TwoCommandsTwoEventsEach ==
    /\ \A c \in Calls :
          /\ call[c].pc = "done"
          /\ call[c].outcome = "committed"
          /\ Len(AppliedEvents(c)) = 2
          /\ call[c].taken[1].event # call[c].taken[2].event
          /\ call[c].snap.log = InitLog
    /\ Len(log) = Len(InitLog) + 4

KindMismatch(e) ==
    /\ IsEvent(e)
    /\ RegisteredKind(e.table, e.name) \in {"create", "modify"}
    /\ RegisteredKind(e.table, e.name) # e.kind

C14_KindMismatchSkipped ==
    [][\A c \in Calls :
          (/\ call[c].pc = "apply"
           /\ Len(call'[c].taken) = Len(call[c].taken) + 1
           /\ KindMismatch(call'[c].taken[Len(call'[c].taken)].event))
          => /\ call'[c].pc = "apply"
             /\ call'[c].taken[Len(call'[c].taken)].out = "mismatch"
             /\ call'[c].txRows = call[c].txRows
             /\ call'[c].appended = call[c].appended
             /\ call'[c].fault = "none"
             /\ <<rows, log, locks>>' = <<rows, log, locks>>]_vars

\* a committed invocation that took a create event with a modify reducer,
\* then a modify event with a create reducer, neither of them applied
C14_BothMismatchesThenCommitted ==
    \E c \in Calls :
        /\ call[c].pc = "done"
        /\ call[c].outcome = "committed"
        /\ Len(call[c].taken) = 2
        /\ KindMismatch(call[c].taken[1].event)
        /\ call[c].taken[1].event.kind = "create"
        /\ KindMismatch(call[c].taken[2].event)
        /\ call[c].taken[2].event.kind = "modify"
        /\ call[c].wrote = EmptyObj
        /\ log = call[c].snap.log

(***************************************************************************)
(* C15 as stated: an invocation that has ended opened its transaction      *)
(* once and issued exactly one of commit and rollback, never both.         *)
(***************************************************************************)
C15_ExactlyOneOfCommitOrRollback ==
    \A c \in Calls :
        call[c].pc = "done" =>
            call[c].issued \in {<<"begin", "commit">>, <<"begin", "rollback">>}

(***************************************************************************)
(* C15 amended: an invocation issues begin once, as its first statement;   *)
(* it issues commit at most once, and only when every event of the plan    *)
(* has been taken without a failure; it issues rollback once, as its last  *)
(* statement, exactly when a step failed -- the commit statement included, *)
(* so a failed commit is followed by a rollback -- and never after a       *)
(* commit that succeeded; it never takes an event of the plan twice.       *)
(***************************************************************************)
Count(seq, x) == Cardinality({j \in DOMAIN seq : seq[j] = x})

C15_OneTransactionPerCall ==
    \A c \in Calls :
        Started(c) =>
            /\ call[c].issued \in {<<"begin">>, <<"begin", "commit">>,
                                   <<"begin", "rollback">>,
                                   <<"begin", "commit", "rollback">>}
            /\ Count(call[c].issued, "commit") = 1 =>
                  /\ call[c].command.kind # "generic" =>
                        call[c].k = Len(call[c].events)
                  /\ \A j \in DOMAIN call[c].taken : call[c].taken[j].out # "fatal"
                  /\ call[c].fault \in {"none", "query"}
            /\ call[c].k = Len(call[c].taken)
            /\ call[c].command.kind # "generic" => call[c].k <= Len(call[c].events)
            /\ call[c].pc = "done" =>
                  /\ call[c].outcome = "committed" <=>
                        call[c].issued = <<"begin", "commit">>
                  /\ call[c].outcome = "rolledback" <=>
                        Count(call[c].issued, "rollback") = 1
                  /\ call[c].fault = "none" <=> call[c].outcome = "committed"
            /\ call[c].pc # "done" => Count(call[c].issued, "rollback") = 0

\* an invocation whose commit statement failed after an event had been
\* applied: commit and rollback were both issued, the store is as before
C15_FailedCommitRolledBack ==
    \E c \in Calls :
        /\ call[c].pc = "done"
        /\ call[c].issued = <<"begin", "commit", "rollback">>
        /\ call[c].outcome = "rolledback"
        /\ call[c].wrote # EmptyObj
        /\ StoreAsBefore(c)

(***************************************************************************)
(* Vocabulary of the properties of Modification events.                    *)
(***************************************************************************)
Max(S) == CHOOSE x \in S : \A y \in S : y <= x

\* the events before the j-th that updated the same stored row
EarlierOnRow(c, j) ==
    {i \in 1 .. (j - 1) :
        /\ call[c].taken[i].out = "modify"
        /\ call[c].taken[i].event.table = call[c].taken[j].event.table
        /\ call[c].taken[i].event.rowId = call[c].taken[j].event.rowId}

\* the events before the j-th that replaced the cache entry of the same id
EarlierOnId(c, j) ==
    {i \in 1 .. (j - 1) :
        /\ call[c].taken[i].out = "modify"
        /\ call[c].taken[i].event.rowId = call[c].taken[j].event.rowId}

\* the row the lock loop cached under `id`
LockedRow(c, id) ==
    LET f == call[c].mutator[
                 Max({j \in DOMAIN call[c].mutator :
                        /\ call[c].mutator[j].id = id
                        /\ <<call[c].mutator[j].table, id>> \in DOMAIN call[c].snap.rows})]
    IN  outputData(id, namesForTable[f.table], call[c].snap.rows[<<f.table, id>>])

\* the stored row and the cached row as the j-th event found them
StoredBefore(c, j) ==
    IF EarlierOnRow(c, j) = {}
    THEN call[c].snap.rows[<<call[c].taken[j].event.table, call[c].taken[j].event.rowId>>]
    ELSE call[c].taken[Max(EarlierOnRow(c, j))].row

CachedBefore(c, j) ==
    IF EarlierOnId(c, j) = {}
    THEN LockedRow(c, call[c].taken[j].event.rowId)
    ELSE call[c].taken[Max(EarlierOnId(c, j))].cached

\* the partial result the updater returned for the j-th event
PartialOf(c, j) ==
    updater(RegisteredFn(call[c].taken[j].event.table, call[c].taken[j].event.name),
            CachedBefore(c, j), call[c].taken[j].event.data)

UpdatedRow(c, j) ==
    /\ call[c].taken[j].out = "modify"
    /\ call[c].taken[j].row # Undefined

(***************************************************************************)
(* C16: the updater of every Modification event applied to a locked row    *)
(* receives the locked row with the partial results of the earlier events  *)
(* merged in, in order; and after commit the stored row equals, column by  *)
(* column, the merge left by the last event applied to it.                 *)
(***************************************************************************)
C16_StoredRowIsSuccessiveMerge ==
    \A c \in Calls : \A j \in DOMAIN call[c].taken :
        UpdatedRow(c, j) =>
            /\ call[c].taken[j].cached = spread(CachedBefore(c, j), PartialOf(c, j))
            /\ (call[c].pc = "done" /\ call[c].outcome = "committed"
                /\ \A i \in DOMAIN call[c].taken : j \in EarlierOnRow(c, i) => ~UpdatedRow(c, i))
               => \A col \in Columns(call[c].taken[j].event.table) :
                     rows[<<call[c].taken[j].event.table,
                            call[c].taken[j].event.rowId>>][col]
                         = call[c].taken[j].cached[col]

(***************************************************************************)
(* C18: a Modification event applied to (table, rowId) stores, in every    *)
(* column its updater gave a non-null value, that value, and in every      *)
(* other column the value stored before, so no column is cleared to null;  *)
(* an invocation writes only rows its applied events target, and after     *)
(* commit every other row is as it was before the call.                    *)
(***************************************************************************)
TargetsOf(c) ==
    {<<call[c].taken[j].event.table, call[c].taken[j].id>> :
        j \in {i \in DOMAIN call[c].taken : Applied(call[c].taken[i])}}

C18_UpdateChangesOnlyGivenColumns ==
    \A c \in Calls :
        /\ \A j \in DOMAIN call[c].taken :
              UpdatedRow(c, j) =>
                  \A col \in Columns(call[c].taken[j].event.table) :
                      /\ call[c].taken[j].row[col] =
                            IF col \in DOMAIN PartialOf(c, j) /\ PartialOf(c, j)[col] # NULL
                            THEN PartialOf(c, j)[col]
                            ELSE StoredBefore(c, j)[col]
                      /\ StoredBefore(c, j)[col] # NULL =>
                            call[c].taken[j].row[col] # NULL
        /\ DOMAIN call[c].txRows \subseteq TargetsOf(c)
        /\ (call[c].pc = "done" /\ call[c].outcome = "committed") =>
              \A k \in DOMAIN rows :
                  k \notin TargetsOf(c) =>
                      (k \in DOMAIN call[c].snap.rows /\ rows[k] = call[c].snap.rows[k])

\* a committed invocation whose updater returned null for `value`: the
\* stored value is kept, and the other rows are untouched
C18_NullResultKeepsColumn ==
    \E c \in Calls :
        /\ call[c].pc = "done"
        /\ call[c].outcome = "committed"
        /\ Len(call[c].taken) = 1
        /\ UpdatedRow(c, 1)
        /\ PartialOf(c, 1) = [value |-> NULL]
        /\ call[c].taken[1].event.rowId = 1
        /\ rows[<<"items", 1>>] = InitRows[<<"items", 1>>]
        /\ rows[<<"tags", 2>>] = InitRows[<<"tags", 2>>]

(***************************************************************************)
(* C17: a lock-and-select that finds no row is not a failure: the field    *)
(* is absent from the locked rows handed to planActions and the id is      *)
(* absent from the cache; a mutator entry whose row exists is present in   *)
(* both, with every column of its table and the id.                        *)
(***************************************************************************)
C17_MissingRowLeftOut ==
    \A c \in Calls :
        call[c].pc \in {"lock", "apply", "addEvent", "commit", "rollback", "done"} =>
            \A j \in 1 .. call[c].i :
                LET f == call[c].mutator[j]
                    key == <<f.table, f.id>>
                    unique == \A h \in DOMAIN call[c].mutator :
                                  call[c].mutator[h].id = f.id => h = j
                    locking == call[c].pc = "lock" /\ unique
                IN  IF key \in DOMAIN call[c].snap.rows
                    THEN /\ j \in DOMAIN call[c].mutatorData
                         /\ call[c].mutatorData[j] =
                               outputData(f.id, namesForTable[f.table], call[c].snap.rows[key])
                         /\ DOMAIN call[c].mutatorData[j] = Columns(f.table) \cup {"id"}
                         /\ locking => /\ f.id \in DOMAIN call[c].selectedObjects
                                       /\ call[c].selectedObjects[f.id] = call[c].mutatorData[j]
                    ELSE /\ j \notin DOMAIN call[c].mutatorData
                         /\ locking => f.id \notin DOMAIN call[c].selectedObjects

\* planning was reached, without a failure, for a mutator naming a row
\* that does not exist
C17_PlannedWithMissingRow ==
    \E c \in Calls :
        /\ call[c].pc = "apply"
        /\ call[c].fault = "none"
        /\ call[c].mutator = <<[table |-> "items", id |-> 2]>>
        /\ <<"items", 2>> \notin DOMAIN call[c].snap.rows
        /\ call[c].mutatorData = EmptyObj
        /\ call[c].selectedObjects = EmptyObj

(***************************************************************************)
(* C19: a Creation event whose insert returns no row id aborts the         *)
(* command: no later event is taken, no log entry is appended for that     *)
(* event, the transaction is rolled back without a commit, and neither     *)
(* rows nor log entries of the earlier events of the command persist.      *)
(***************************************************************************)
C19_MissingIdAborts ==
    \A c \in Calls :
        call[c].fault = "noid" =>
            LET last == call[c].taken[Len(call[c].taken)]
            IN  /\ call[c].pc \in {"rollback", "done"}
                /\ last.out = "fatal"
                /\ last.event.kind = "create"
                /\ call[c].k = Len(call[c].taken)
                /\ Len(call[c].appended) = Len(AppliedEvents(c))
                /\ \A n \in DOMAIN call[c].appended :
                      EntryMatches(call[c].appended[n], AppliedEvents(c)[n])
                /\ \A n \in DOMAIN call[c].issued : call[c].issued[n] # "commit"
                /\ call[c].pc = "done" =>
                      /\ call[c].outcome = "rolledback"
                      /\ StoreAsBefore(c)
                      /\ \A n \in DOMAIN log : log[n].tx = 0

\* a command whose first event was applied and logged and whose second
\* event's insert returned no id, after its rollback
C19_SecondInsertWithoutId ==
    \E c \in Calls :
        /\ call[c].pc = "done"
        /\ call[c].fault = "noid"
        /\ Len(call[c].taken) = 2
        /\ Applied(call[c].taken[1])
        /\ Len(call[c].appended) = 1
        /\ call[c].wrote = EmptyObj
        /\ StoreAsBefore(c)

(***************************************************************************)
(* C20: for a command of kind create or modify, a validate that fails      *)
(* yields no event, the failure reaches runCommand, which rolls back, and  *)
(* nothing is persisted; a validate that succeeds yields exactly one       *)
(* event: a Creation event, or a Modification event carrying the row id    *)
(* validate returned, of the command's name and kind, with the input less  *)
(* its table field as payload.                                             *)
(***************************************************************************)
Synthesized(c) ==
    /\ call[c].pc \notin {"idle", "returned"}
    /\ call[c].command.kind \in {"create", "modify"}

C20_ValidateDecidesTheEvent ==
    \A c \in Calls :
        Synthesized(c) =>
            LET me == call[c]
                cmd == me.command
            IN  /\ Len(me.events) <= 1
                /\ me.fault = "plan" =>
                      /\ me.events = << >>
                      /\ me.taken = << >>
                      /\ me.appended = << >>
                      /\ me.txRows = EmptyObj
                      /\ me.pc \in {"rollback", "done"}
                      /\ \A n \in DOMAIN me.issued : me.issued[n] # "commit"
                      /\ me.pc = "done" =>
                            /\ me.outcome = "rolledback"
                            /\ StoreAsBefore(c)
                /\ (PlanningInvoked(c) /\ me.fault # "plan") =>
                      /\ Len(me.events) = 1
                      /\ me.events[1].name = cmd.name
                      /\ me.events[1].kind = cmd.kind
                      /\ me.events[1].data = [value |-> me.input.value]
                      /\ me.events[1].table =
                            (IF cmd.table # NoTable THEN cmd.table ELSE me.input.table)
                      /\ cmd.kind = "create" => IsCreation(me.events[1])
                      /\ cmd.kind = "modify" =>
                            /\ IsModification(me.events[1])
                            /\ me.events[1].rowId = me.validated
                            /\ me.validated \in IdsNow

\* a modify command whose validate failed, after its rollback
C20_ValidateFailedNothingPersisted ==
    \E c \in Calls :
        /\ call[c].pc = "done"
        /\ call[c].command.kind = "modify"
        /\ call[c].fault = "plan"
        /\ call[c].events = << >>
        /\ call[c].outcome = "rolledback"
        /\ StoreAsBefore(c)

(***************************************************************************)
(* C21: the event a create or modify command builds has the command's      *)
(* name, the command's fixed table if one is declared and else the         *)
(* input's table field, and as payload the input's fields other than       *)
(* `table` with their values; every event a command.event function built,  *)
(* and every entry of the event log, has a payload without a `table`       *)
(* field.                                                                  *)
(***************************************************************************)
C21_EventIsNamedAndStripped ==
    /\ \A c \in Calls :
          call[c].pc \notin {"idle", "returned"} =>
              \A n \in DOMAIN call[c].events :
                  LET e == call[c].events[n]
                      cmd == call[c].command
                      in == call[c].input
                  IN  /\ IsEvent(e) =>
                            /\ "table" \notin DOMAIN e.data
                            /\ \E j \in DOMAIN Commands :
                                  /\ Commands[j].name = e.name
                                  /\ Commands[j].kind = e.kind
                      /\ cmd.kind \in {"create", "modify"} =>
                            /\ e.name = cmd.name
                            /\ e.table = (IF cmd.table # NoTable THEN cmd.table ELSE in.table)
                            /\ DOMAIN e.data = (DOMAIN in) \ {"table"}
                            /\ \A f \in DOMAIN e.data : e.data[f] = in[f]
    /\ \A n \in DOMAIN log : "table" \notin DOMAIN log[n].data

\* a committed command without a fixed table, whose input named the table:
\* the entry it appended has that table and the payload without it
C21_InputTableMovedToEvent ==
    \E c \in Calls :
        /\ call[c].pc = "done"
        /\ call[c].outcome = "committed"
        /\ call[c].command.table = NoTable
        /\ call[c].command.kind = "create"
        /\ call[c].input = [table |-> "items", value |-> 1]
        /\ Len(call[c].appended) = 1
        /\ log[Len(log)].table_name = "items"
        /\ log[Len(log)].name = call[c].command.name
        /\ log[Len(log)].data = [value |-> 1]

(***************************************************************************)
(* C22: a Modification event is applied only if the command's mutator      *)
(* named the pair (event.table, event.rowId) and that row was locked, and  *)
(* the previous row its updater receives has the columns of event.table;   *)
(* every committed entry of the event log names a row that exists in the   *)
(* table it names.                                                         *)
(***************************************************************************)
NamedAndLocked(c, table, id) ==
    /\ \E h \in DOMAIN call[c].mutator :
          call[c].mutator[h] = [table |-> table, id |-> id]
    /\ <<table, id>> \in DOMAIN call[c].snap.rows

C22_ModifyOnlyOnLockedPair ==
    /\ \A c \in Calls : \A j \in DOMAIN call[c].taken :
          call[c].taken[j].out = "modify" =>
              /\ NamedAndLocked(c, call[c].taken[j].event.table,
                                   call[c].taken[j].event.rowId)
              /\ DOMAIN CachedBefore(c, j) =
                    Columns(call[c].taken[j].event.table) \cup {"id"}
    /\ \A n \in DOMAIN log :
          log[n].tx = 0 => <<log[n].table_name, log[n].row_id>> \in DOMAIN rows

(***************************************************************************)
(* C23: after a Modification event is applied to a stored row, the row     *)
(* cached under its id has, in every column of the table, the value the    *)
(* store holds for that row inside the transaction, whatever the updater   *)
(* returned, a null value for a column included.                           *)
(***************************************************************************)
C23_CacheEqualsStoredRow ==
    \A c \in Calls : \A j \in DOMAIN call[c].taken :
        UpdatedRow(c, j) =>
            /\ call[c].taken[j].cached.id = call[c].taken[j].event.rowId
            /\ \A col \in Columns(call[c].taken[j].event.table) :
                  call[c].taken[j].cached[col] = call[c].taken[j].row[col]

(***************************************************************************)
(* C24: under fair scheduling every started runCommand invocation          *)
(* eventually has committed or rolled back and holds no row lock, and no   *)
(* two invocations ever wait for a row lock the other holds, whatever the  *)
(* order in which their mutators name the rows.                            *)
(***************************************************************************)
\* the row whose lock the invocation's pending lock-and-select waits for
WaitsFor(c) ==
    IF call[c].pc = "lock" /\ call[c].i < Len(call[c].mutator)
    THEN LET f == call[c].mutator[call[c].i + 1]
         IN  {k \in {<<f.table, f.id>>} : k \in DOMAIN locks /\ locks[k] # c}
    ELSE {}

WaitCycle ==
    \E c, d \in Calls :
        /\ c # d
        /\ \E k \in WaitsFor(c) : locks[k] = d
        /\ \E k \in WaitsFor(d) : locks[k] = c

Ended(c) ==
    /\ call[c].pc \in {"done", "returned"}
    /\ \A k \in DOMAIN locks : locks[k] # c

====
